---- MODULE Spec2Model ----
(***************************************************************************)
(* A model of backend/app.py: the Socket.IO "audio" round trip             *)
(* (handle_audio) and its three adapters (transcribe_audio,                *)
(* get_ai_response, text_to_speech), run as tasks of one asyncio event     *)
(* loop.                                                                   *)
(***************************************************************************)
EXTENDS Integers, Sequences, FiniteSets, TLC

(***************************************************************************)
(* Bounds of the model.                                                    *)
(***************************************************************************)
\* handle_audio invocations (one per inbound "audio" event)
MaxTasks == 2
\* client connections (Socket.IO session ids)
MaxSids == 2
\* longest inbound payload of the decode specification, in characters
MaxLen == 4

Tasks == 1..MaxTasks
Sids == 1..MaxSids

(***************************************************************************)
(* Text and bytes.  A payload is a sequence of one-character strings; bytes *)
(* are sequences of 0..255.                                                *)
(***************************************************************************)
\* the standard base64 alphabet, value i at position i+1
Alphabet64 ==
    << "A","B","C","D","E","F","G","H","I","J","K","L","M","N","O","P",
       "Q","R","S","T","U","V","W","X","Y","Z","a","b","c","d","e","f",
       "g","h","i","j","k","l","m","n","o","p","q","r","s","t","u","v",
       "w","x","y","z","0","1","2","3","4","5","6","7","8","9","+","/" >>

IsB64Char(c) == \E i \in 1..64 : Alphabet64[i] = c

B64Val(c) == (CHOOSE i \in 1..64 : Alphabet64[i] = c) - 1

\* the characters payloads are built from: two alphabet characters, the pad,
\* the comma of a data-URI header, and a character outside the alphabet
Chars == {"A", "/", "=", ",", "!"}

HasComma(s) == \E i \in 1..Len(s) : s[i] = ","

FirstComma(s) == CHOOSE i \in 1..Len(s) : s[i] = "," /\ \A j \in 1..(i-1) : s[j] # ","

\* str.split(","): the segments between the commas
RECURSIVE Split(_)
Split(s) ==
    IF ~HasComma(s) THEN << s >>
    ELSE CHOOSE r \in { << SubSeq(s, 1, FirstComma(s) - 1) >> \o Split(rest) :
                          rest \in { SubSeq(s, FirstComma(s) + 1, Len(s)) } } : TRUE

\* data.split(",")[1] if "," in data else data
AudioBase64(data) == IF HasComma(data) THEN Split(data)[2] ELSE data

\* binascii.a2b_base64, non-strict: one character consumed from state st
\* st = [quad, pads, left, out, stop]
A2bStep(st, ch) ==
    IF st.stop THEN st
    ELSE IF ch = "=" THEN
        IF st.quad >= 2
        THEN IF st.quad + st.pads + 1 >= 4
             THEN [st EXCEPT !.pads = st.pads + 1, !.quad = 0, !.stop = TRUE]
             ELSE [st EXCEPT !.pads = st.pads + 1]
        ELSE st
    ELSE IF ~IsB64Char(ch) THEN st
    ELSE LET c == B64Val(ch) IN
        CASE st.quad = 0 -> [st EXCEPT !.pads = 0, !.quad = 1, !.left = c]
          [] st.quad = 1 -> [st EXCEPT !.pads = 0, !.quad = 2,
                                !.out = Append(st.out, ((st.left * 4) + (c \div 16)) % 256),
                                !.left = c % 16]
          [] st.quad = 2 -> [st EXCEPT !.pads = 0, !.quad = 3,
                                !.out = Append(st.out, ((st.left * 16) + (c \div 4)) % 256),
                                !.left = c % 4]
          [] OTHER       -> [st EXCEPT !.pads = 0, !.quad = 0,
                                !.out = Append(st.out, ((st.left * 64) + c) % 256),
                                !.left = 0]

\* the characters of s from the i-th on, consumed from state st (each state
\* is bound to a value before the next character is read)
RECURSIVE A2bRun(_, _, _)
A2bRun(s, i, st) ==
    IF i > Len(s) THEN st
    ELSE CHOOSE r \in { A2bRun(s, i + 1, nxt) : nxt \in { A2bStep(st, s[i]) } } : TRUE

\* base64.b64decode(s): [ok |-> FALSE] when binascii.Error is raised
B64Decode(s) ==
    CHOOSE r \in
        { IF st.quad # 0 THEN [ok |-> FALSE, bytes |-> << >>]
                         ELSE [ok |-> TRUE, bytes |-> st.out] :
          st \in { A2bRun(s, 1, [quad |-> 0, pads |-> 0, left |-> 0,
                                  out |-> << >>, stop |-> FALSE]) } } : TRUE

\* base64.b64encode(b).decode("utf-8"), as a string
RECURSIVE B64Encode(_)
B64Encode(b) ==
    IF Len(b) = 0 THEN ""
    ELSE IF Len(b) = 1 THEN
        Alphabet64[(b[1] \div 4) + 1] \o Alphabet64[((b[1] % 4) * 16) + 1] \o "=="
    ELSE IF Len(b) = 2 THEN
        Alphabet64[(b[1] \div 4) + 1]
        \o Alphabet64[((b[1] % 4) * 16) + (b[2] \div 16) + 1]
        \o Alphabet64[((b[2] % 16) * 4) + 1] \o "="
    ELSE
        Alphabet64[(b[1] \div 4) + 1]
        \o Alphabet64[((b[1] % 4) * 16) + (b[2] \div 16) + 1]
        \o Alphabet64[((b[2] % 16) * 4) + (b[3] \div 64) + 1]
        \o Alphabet64[(b[3] % 64) + 1]
        \o B64Encode(SubSeq(b, 4, Len(b)))

(***************************************************************************)
(* Values the remote services can produce.                                 *)
(***************************************************************************)
\* inbound "audio" payloads of the round-trip specification: a data-URI
\* payload, and one b64decode rejects
Payloads ==
    { << "!", ",", "/", "/", "=", "=" >>,
      << "A" >> }

\* every payload of at most MaxLen characters
AllPayloads == UNION { [1..n -> Chars] : n \in 0..MaxLen }

\* groq_client.audio.transcriptions.create: a transcript, an empty one, or raises
SttOutcomes ==
    { [raised |-> FALSE, text |-> "hello"],
      [raised |-> FALSE, text |-> ""],
      [raised |-> TRUE,  text |-> ""] }

\* llm.invoke: a reply, or raises
ChatOutcomes ==
    { [raised |-> FALSE, text |-> "hi there"],
      [raised |-> TRUE,  text |-> ""] }

\* Python's None, among byte strings
NoneBytes == << -1 >>

\* client.audio.speech.create: audio, no bytes at all, or raises
TtsOutcomes ==
    { [raised |-> FALSE, bytes |-> << 1, 2, 3 >>],
      [raised |-> FALSE, bytes |-> << >>],
      [raised |-> TRUE,  bytes |-> << >>] }

Fallback == "I couldn't process that request."
MsgTranscribe == "Failed to transcribe audio"
MsgAudio == "Failed to generate audio response"
MsgGeneric == "An error occurred processing your request"

Unset == "<unset>"

(***************************************************************************)
(* State.                                                                  *)
(***************************************************************************)
VARIABLES
    groq_client,       \* whether the Groq client exists (GROQ_API_KEY is set)
    loop,              \* the task running on the event loop's thread, 0 when none
    pc,                \* per task: its position in handle_audio
    sid,               \* per task: the sid its "audio" event came from
    data,              \* per task: the payload of its "audio" event
    audio_base64,      \* per task: handle_audio's local
    audio_bytes,       \* per task: handle_audio's local
    pending,           \* per task: what the remote call in progress came back with
    transcribed_text,  \* per task: handle_audio's local
    ai_response,       \* per task: handle_audio's local
    audio_data,        \* per task: handle_audio's local
    files,             \* the temporary files that exist, named by the creating task
    emitted,           \* per task: its sio.emit calls, in order
    outbox,            \* per sid: the messages delivered to that client
    invoked,           \* per task: the adapters it called, with their arguments
    returned           \* per task: what each adapter returned to it

vars == << groq_client, loop, pc, sid, data, audio_base64, audio_bytes, pending,
           transcribed_text, ai_response, audio_data, files, emitted, outbox,
           invoked, returned >>

locals == << audio_base64, audio_bytes, transcribed_text, ai_response, audio_data >>

NoOutcome == [raised |-> FALSE]

Init ==
    /\ groq_client \in BOOLEAN
    /\ loop = 0
    /\ pc = [t \in Tasks |-> "idle"]
    /\ sid = [t \in Tasks |-> 0]
    /\ data = [t \in Tasks |-> << >>]
    /\ audio_base64 = [t \in Tasks |-> << >>]
    /\ audio_bytes = [t \in Tasks |-> << >>]
    /\ pending = [t \in Tasks |-> NoOutcome]
    /\ transcribed_text = [t \in Tasks |-> Unset]
    /\ ai_response = [t \in Tasks |-> Unset]
    /\ audio_data = [t \in Tasks |-> NoneBytes]
    /\ files = {}
    /\ emitted = [t \in Tasks |-> << >>]
    /\ outbox = [s \in Sids |-> {}]
    /\ invoked = [t \in Tasks |-> << >>]
    /\ returned = [t \in Tasks |-> << >>]

(***************************************************************************)
(* The event loop.  A task runs on the loop's one thread from one           *)
(* suspension point to the next; the three remote calls are synchronous     *)
(* calls made on that thread.                                              *)
(***************************************************************************)
\* task t can take its next step: it holds the thread, or the thread is free
CanRun(t) == loop = t \/ loop = 0

\* an emit without room=: every client receives it
RecipientsBroadcast(t) == Sids

\* the clients that receive an emit of task t: sio.emit(..., room=sid)
Recipients(t) == { s \in Sids : s = sid[t] }

\* await sio.emit(event, msg, room=sid) by task t
Emit(t, event, msg) ==
    /\ emitted' = [emitted EXCEPT ![t] = Append(@, [event |-> event, data |-> msg])]
    /\ outbox' = [s \in Sids |->
                    IF s \in Recipients(t)
                    THEN outbox[s] \cup { [task |-> t, seq |-> Len(emitted[t]) + 1,
                                           event |-> event, data |-> msg] }
                    ELSE outbox[s]]

\* the await of an emit may or may not suspend the task
AfterAwait(t) == loop' \in {0, t}

(***************************************************************************)
(* The "audio" event.  handle_connect and handle_disconnect only log: they  *)
(* change no state and are stuttering steps of the specification.          *)
(***************************************************************************)
\* the sids that have submitted audio so far
UsedSids == { sid[u] : u \in { v \in Tasks : pc[v] # "idle" } }

\* an "audio" event of client s arrives; its handler task is scheduled.
\* Task ids and sids are opaque names: they are handed out in order.
Submit(t, s, d) ==
    /\ pc[t] = "idle"
    /\ \A u \in Tasks : u < t => pc[u] # "idle"
    /\ s <= Cardinality(UsedSids) + 1
    /\ pc' = [pc EXCEPT ![t] = "pending"]
    /\ sid' = [sid EXCEPT ![t] = s]
    /\ data' = [data EXCEPT ![t] = d]
    /\ UNCHANGED << groq_client, loop, locals, pending, files,
                    emitted, outbox, invoked, returned >>

(***************************************************************************)
(* handle_audio, and the adapters it calls.                                *)
(***************************************************************************)
Call(t, fn, arg) == invoked' = [invoked EXCEPT ![t] = Append(@, [fn |-> fn, arg |-> arg])]

Return(t, fn, raised, ret) ==
    returned' = [returned EXCEPT ![t] = Append(@, [fn |-> fn, raised |-> raised, ret |-> ret])]

\* lines 115-118: the task starts and decodes the payload
HandleAudio(t) ==
    /\ pc[t] = "pending"
    /\ loop = 0
    /\ loop' = t
    /\ audio_base64' = [audio_base64 EXCEPT ![t] = AudioBase64(data[t])]
    /\ LET dec == B64Decode(AudioBase64(data[t])) IN
        IF dec.ok
        THEN /\ audio_bytes' = [audio_bytes EXCEPT ![t] = dec.bytes]
             /\ pc' = [pc EXCEPT ![t] = "transcribe_audio"]
        ELSE /\ UNCHANGED audio_bytes
             /\ pc' = [pc EXCEPT ![t] = "except"]
    /\ UNCHANGED << groq_client, sid, data, pending, transcribed_text,
                    ai_response, audio_data, files, emitted, outbox, invoked, returned >>

\* lines 121, 44-50: transcribe_audio is entered; without a Groq client it
\* returns "", otherwise it creates the temporary file
TranscribeEnter(t) ==
    /\ pc[t] = "transcribe_audio"
    /\ loop = t
    /\ Call(t, "transcribe_audio", audio_bytes[t])
    /\ IF ~groq_client
       THEN /\ Return(t, "transcribe_audio", FALSE, "")
            /\ transcribed_text' = [transcribed_text EXCEPT ![t] = ""]
            /\ pc' = [pc EXCEPT ![t] = "check_text"]
            /\ UNCHANGED files
       ELSE /\ files' = files \cup {t}
            /\ pc' = [pc EXCEPT ![t] = "temp_write"]
            /\ UNCHANGED << returned, transcribed_text >>
    /\ UNCHANGED << groq_client, loop, sid, data, audio_base64, audio_bytes, pending,
                    ai_response, audio_data, emitted, outbox >>

\* lines 51-52, 72-74: temp_wav.write succeeds, or raises (a full disk) and
\* the outer except returns ""
TempWrite(t) ==
    /\ pc[t] = "temp_write"
    /\ loop = t
    /\ \E ok \in BOOLEAN :
        IF ok
        THEN /\ pc' = [pc EXCEPT ![t] = "groq_call"]
             /\ UNCHANGED << returned, transcribed_text >>
        ELSE /\ Return(t, "transcribe_audio", TRUE, "")
             /\ transcribed_text' = [transcribed_text EXCEPT ![t] = ""]
             /\ pc' = [pc EXCEPT ![t] = "check_text"]
    /\ UNCHANGED << groq_client, loop, sid, data, audio_base64, audio_bytes, pending,
                    ai_response, audio_data, files, emitted, outbox, invoked >>

\* lines 56-63: the synchronous Groq call starts
GroqCall(t) ==
    /\ pc[t] = "groq_call"
    /\ loop = t
    /\ pc' = [pc EXCEPT ![t] = "groq_wait"]
    /\ UNCHANGED << groq_client, loop, sid, data, locals, pending, files,
                    emitted, outbox, invoked, returned >>

\* the Groq call comes back: a transcript, or an exception
GroqReturn(t) ==
    /\ pc[t] = "groq_wait"
    /\ loop = t
    /\ \E o \in SttOutcomes : pending' = [pending EXCEPT ![t] = o]
    /\ pc' = [pc EXCEPT ![t] = "temp_cleanup"]
    /\ UNCHANGED << groq_client, loop, sid, data, locals, files,
                    emitted, outbox, invoked, returned >>

\* lines 65-74: the finally clause unlinks the file; transcribe_audio returns
\* the transcript, or "" when the call raised
TempCleanup(t) ==
    /\ pc[t] = "temp_cleanup"
    /\ loop = t
    /\ files' = files \ {t}
    /\ LET text == IF pending[t].raised THEN "" ELSE pending[t].text IN
        /\ Return(t, "transcribe_audio", pending[t].raised, text)
        /\ transcribed_text' = [transcribed_text EXCEPT ![t] = text]
    /\ pending' = [pending EXCEPT ![t] = NoOutcome]
    /\ pc' = [pc EXCEPT ![t] = "check_text"]
    /\ UNCHANGED << groq_client, loop, sid, data, audio_base64, audio_bytes,
                    ai_response, audio_data, emitted, outbox, invoked >>

\* CheckText without line 126: the transcript is never emitted
CheckTextSkipsTranscription(t) ==
    /\ pc[t] = "check_text"
    /\ loop = t
    /\ IF transcribed_text[t] = ""
       THEN /\ Emit(t, "error", MsgTranscribe)
            /\ pc' = [pc EXCEPT ![t] = "done"]
            /\ loop' = 0
       ELSE /\ UNCHANGED << emitted, outbox >>
            /\ pc' = [pc EXCEPT ![t] = "chat_call"]
            /\ AfterAwait(t)
    /\ UNCHANGED << groq_client, sid, data, locals, pending, files,
                    invoked, returned >>

\* CheckText without the return of line 124: the round trip goes on
CheckTextNoReturn(t) ==
    /\ pc[t] = "check_text"
    /\ loop = t
    /\ IF transcribed_text[t] = ""
       THEN Emit(t, "error", MsgTranscribe)
       ELSE Emit(t, "transcription", transcribed_text[t])
    /\ pc' = [pc EXCEPT ![t] = "chat_call"]
    /\ AfterAwait(t)
    /\ UNCHANGED << groq_client, sid, data, locals, pending, files,
                    invoked, returned >>

\* lines 122-126: an empty transcript ends the round trip with an error;
\* otherwise the transcript is emitted
CheckText(t) ==
    /\ pc[t] = "check_text"
    /\ loop = t
    /\ IF transcribed_text[t] = ""
       THEN /\ Emit(t, "error", MsgTranscribe)
            /\ pc' = [pc EXCEPT ![t] = "done"]
            /\ loop' = 0
       ELSE /\ Emit(t, "transcription", transcribed_text[t])
            /\ pc' = [pc EXCEPT ![t] = "chat_call"]
            /\ AfterAwait(t)
    /\ UNCHANGED << groq_client, sid, data, locals, pending, files,
                    invoked, returned >>

\* lines 129, 81: get_ai_response is called; llm.invoke starts
ChatCall(t) ==
    /\ pc[t] = "chat_call"
    /\ CanRun(t)
    /\ loop' = t
    /\ Call(t, "get_ai_response", transcribed_text[t])
    /\ pc' = [pc EXCEPT ![t] = "chat_wait"]
    /\ UNCHANGED << groq_client, sid, data, locals, pending, files,
                    emitted, outbox, returned >>

\* ChatReturn without the except clause of lines 83-85: the exception reaches
\* the handler
ChatReturnPropagates(t) ==
    /\ pc[t] = "chat_wait"
    /\ loop = t
    /\ \E o \in ChatOutcomes :
        IF o.raised
        THEN /\ Return(t, "get_ai_response", TRUE, Unset)
             /\ UNCHANGED ai_response
             /\ pc' = [pc EXCEPT ![t] = "except"]
        ELSE /\ Return(t, "get_ai_response", FALSE, o.text)
             /\ ai_response' = [ai_response EXCEPT ![t] = o.text]
             /\ pc' = [pc EXCEPT ![t] = "emit_ai"]
    /\ UNCHANGED << groq_client, loop, sid, data, audio_base64, audio_bytes, pending,
                    transcribed_text, audio_data, files, emitted, outbox, invoked >>

\* lines 82-85: llm.invoke comes back; get_ai_response returns the reply, or
\* the fallback when it raised
ChatReturn(t) ==
    /\ pc[t] = "chat_wait"
    /\ loop = t
    /\ \E o \in ChatOutcomes :
        LET reply == IF o.raised THEN Fallback ELSE o.text IN
        /\ Return(t, "get_ai_response", o.raised, reply)
        /\ ai_response' = [ai_response EXCEPT ![t] = reply]
    /\ pc' = [pc EXCEPT ![t] = "emit_ai"]
    /\ UNCHANGED << groq_client, loop, sid, data, audio_base64, audio_bytes, pending,
                    transcribed_text, audio_data, files, emitted, outbox, invoked >>

\* line 130
EmitAiResponse(t) ==
    /\ pc[t] = "emit_ai"
    /\ loop = t
    /\ Emit(t, "ai_response", ai_response[t])
    /\ pc' = [pc EXCEPT ![t] = "tts_call"]
    /\ AfterAwait(t)
    /\ UNCHANGED << groq_client, sid, data, locals, pending, files,
                    invoked, returned >>

\* lines 133, 93-98: text_to_speech is called; the synthesis call starts
TtsCall(t) ==
    /\ pc[t] = "tts_call"
    /\ CanRun(t)
    /\ loop' = t
    /\ Call(t, "text_to_speech", ai_response[t])
    /\ pc' = [pc EXCEPT ![t] = "tts_wait"]
    /\ UNCHANGED << groq_client, sid, data, locals, pending, files,
                    emitted, outbox, returned >>

\* lines 99-102: the synthesis call comes back; text_to_speech returns the
\* audio, or None when it raised
TtsReturn(t) ==
    /\ pc[t] = "tts_wait"
    /\ loop = t
    /\ \E o \in TtsOutcomes :
        LET audio == IF o.raised THEN NoneBytes ELSE o.bytes IN
        /\ Return(t, "text_to_speech", o.raised, audio)
        /\ audio_data' = [audio_data EXCEPT ![t] = audio]
    /\ pc' = [pc EXCEPT ![t] = "emit_audio"]
    /\ UNCHANGED << groq_client, loop, sid, data, audio_base64, audio_bytes, pending,
                    transcribed_text, ai_response, files, emitted, outbox, invoked >>

\* if audio_data: None and b"" are both false
Truthy(b) == b # NoneBytes /\ Len(b) > 0

\* EmitAudio testing "audio_data is not None" instead of its truth value
EmitAudioNotNone(t) ==
    /\ pc[t] = "emit_audio"
    /\ loop = t
    /\ IF audio_data[t] # NoneBytes
       THEN Emit(t, "audio_response", B64Encode(audio_data[t]))
       ELSE Emit(t, "error", MsgAudio)
    /\ pc' = [pc EXCEPT ![t] = "done"]
    /\ loop' = 0
    /\ UNCHANGED << groq_client, sid, data, locals, pending, files,
                    invoked, returned >>

\* lines 134-138: the audio is emitted base64-encoded, or an error is; the
\* handler returns
EmitAudio(t) ==
    /\ pc[t] = "emit_audio"
    /\ loop = t
    /\ IF Truthy(audio_data[t])
       THEN Emit(t, "audio_response", B64Encode(audio_data[t]))
       ELSE Emit(t, "error", MsgAudio)
    /\ pc' = [pc EXCEPT ![t] = "done"]
    /\ loop' = 0
    /\ UNCHANGED << groq_client, sid, data, locals, pending, files,
                    invoked, returned >>

\* HandleExcept that only logs
HandleExceptSilent(t) ==
    /\ pc[t] = "except"
    /\ loop = t
    /\ pc' = [pc EXCEPT ![t] = "done"]
    /\ loop' = 0
    /\ UNCHANGED << groq_client, sid, data, locals, pending, files,
                    emitted, outbox, invoked, returned >>

\* lines 140-142: the handler's except clause
HandleExcept(t) ==
    /\ pc[t] = "except"
    /\ loop = t
    /\ Emit(t, "error", MsgGeneric)
    /\ pc' = [pc EXCEPT ![t] = "done"]
    /\ loop' = 0
    /\ UNCHANGED << groq_client, sid, data, locals, pending, files,
                    invoked, returned >>

\* one step of task t
Step(t) ==
    \/ HandleAudio(t)
    \/ TranscribeEnter(t)
    \/ TempWrite(t)
    \/ GroqCall(t)
    \/ GroqReturn(t)
    \/ TempCleanup(t)
    \/ CheckText(t)
    \/ ChatCall(t)
    \/ ChatReturn(t)
    \/ EmitAiResponse(t)
    \/ TtsCall(t)
    \/ TtsReturn(t)
    \/ EmitAudio(t)
    \/ HandleExcept(t)

\* the event loop keeps running: while some handler has a step to take, a
\* handler's step is eventually taken (a ready task is run, a remote call
\* returns or raises)
Handlers == \E t \in Tasks : Step(t)

Next ==
    \/ \E t \in Tasks, s \in Sids, d \in Payloads : Submit(t, s, d)
    \/ Handlers

Spec == Init /\ [][Next]_vars

FairSpec == Spec /\ WF_vars(Handlers)

\* one round trip, over every payload of at most MaxLen characters
NextDecode ==
    \/ \E d \in AllPayloads : Submit(1, 1, d)
    \/ Step(1)

SpecDecode == Init /\ [][NextDecode]_vars

(***************************************************************************)
(* Properties.                                                             *)
(***************************************************************************)
EventsOf(t) == [i \in 1..Len(emitted[t]) |-> emitted[t][i].event]

Rank(ev) == CASE ev = "transcription" -> 1
              [] ev = "ai_response" -> 2
              [] ev = "audio_response" -> 3
              [] OTHER -> 0

\* what adapter fn returned to task t
Rets(t, fn) == { returned[t][i].ret : i \in { j \in 1..Len(returned[t]) : returned[t][j].fn = fn } }

Raised(t, fn) == \E i \in 1..Len(returned[t]) : returned[t][i].fn = fn /\ returned[t][i].raised

Invoked(t, fn) == \E i \in 1..Len(invoked[t]) : invoked[t][i].fn = fn

\* C1: within a round trip the success events are emitted in the order
\* transcription, ai_response, audio_response: ai_response only after a
\* transcription, audio_response only after an ai_response.
EmissionOrder ==
    \A t \in Tasks : \A i \in 1..Len(emitted[t]) :
        /\ emitted[t][i].event = "ai_response"
            => \E j \in 1..(i-1) : emitted[t][j].event = "transcription"
        /\ emitted[t][i].event = "audio_response"
            => \E j \in 1..(i-1) : emitted[t][j].event = "ai_response"
        /\ \A j \in 1..(i-1) :
            Rank(emitted[t][i].event) > 0 /\ Rank(emitted[t][j].event) > 0
                => Rank(emitted[t][j].event) < Rank(emitted[t][i].event)

EmissionOrderWitness ==
    \E t \in Tasks :
        /\ pc[t] = "done"
        /\ EventsOf(t) = << "transcription", "ai_response", "audio_response" >>

TranscribeEmpty(t) == "" \in Rets(t, "transcribe_audio")

\* C2: when transcribe_audio returns "", the round trip emits exactly one
\* error event, "Failed to transcribe audio", no other event, and calls
\* neither get_ai_response nor text_to_speech.
EmptyTranscriptHalts ==
    \A t \in Tasks : TranscribeEmpty(t) =>
        /\ ~Invoked(t, "get_ai_response")
        /\ ~Invoked(t, "text_to_speech")
        /\ pc[t] \in {"check_text", "done"}
        /\ emitted[t] = IF pc[t] = "done"
                        THEN << [event |-> "error", data |-> MsgTranscribe] >>
                        ELSE << >>

EmptyTranscriptWitness ==
    \E t \in Tasks : TranscribeEmpty(t) /\ pc[t] = "done" /\ groq_client

TtsNoAudio(t) == \E b \in Rets(t, "text_to_speech") : ~Truthy(b)

\* C4: when the chat call raises inside get_ai_response, the round trip goes
\* on: ai_response carries the fallback text, text_to_speech is called with
\* it, and the only error event there can be is the synthesis one.
ChatFailureFallsBack ==
    \A t \in Tasks : Raised(t, "get_ai_response") =>
        /\ pc[t] \in {"emit_ai", "tts_call", "tts_wait", "emit_audio", "done"}
        /\ pc[t] # "emit_ai" =>
            /\ Len(emitted[t]) >= 2
            /\ emitted[t][1].event = "transcription"
            /\ emitted[t][2] = [event |-> "ai_response", data |-> Fallback]
        /\ pc[t] \in {"tts_wait", "emit_audio", "done"} =>
            \E i \in 1..Len(invoked[t]) :
                invoked[t][i].fn = "text_to_speech" /\ invoked[t][i].arg = Fallback
        /\ \A i \in 1..Len(emitted[t]) : emitted[t][i].event = "error" =>
            /\ i = 3
            /\ emitted[t][i].data = MsgAudio
            /\ TtsNoAudio(t)

ChatFailureWitness ==
    \E t \in Tasks :
        /\ Raised(t, "get_ai_response")
        /\ pc[t] = "done"
        /\ EventsOf(t) = << "transcription", "ai_response", "audio_response" >>

\* C5: when text_to_speech returns no audio, transcription and ai_response
\* were emitted before the error "Failed to generate audio response", which
\* is the last event of the round trip; no audio_response is emitted.
SynthesisFailureIsLast ==
    \A t \in Tasks : TtsNoAudio(t) =>
        /\ pc[t] \in {"emit_audio", "done"}
        /\ Len(emitted[t]) = IF pc[t] = "done" THEN 3 ELSE 2
        /\ emitted[t][1].event = "transcription"
        /\ emitted[t][2].event = "ai_response"
        /\ pc[t] = "done" => emitted[t][3] = [event |-> "error", data |-> MsgAudio]

SynthesisFailureWitness ==
    \E t \in Tasks : pc[t] = "done" /\ << >> \in Rets(t, "text_to_speech")

\* C6: every submission's round trip ends, and ends with at least one event
\* emitted.
EverySubmissionAnswered ==
    \A t \in Tasks : (pc[t] = "pending") ~> (pc[t] = "done" /\ Len(emitted[t]) >= 1)

EverySubmissionAnsweredWitness ==
    /\ \A t \in Tasks : pc[t] = "done" /\ Len(emitted[t]) >= 1
    /\ \E t \in Tasks : emitted[t] = << [event |-> "error", data |-> MsgGeneric] >>

InRemoteCall(t) == pc[t] \in {"groq_wait", "chat_wait", "tts_wait"}

HasStep(t) == pc[t] \in {"pending", "chat_call", "tts_call"}

\* C7: while one session's round trip waits on a remote call, another
\* session's round trip that has a step to take can take it.
OtherSessionsNotBlocked ==
    \A t, u \in Tasks :
        sid[t] # sid[u] /\ InRemoteCall(t) /\ HasStep(u) => ENABLED Step(u)

\* the data an event of task t may carry
ContentOf(t, ev, d) ==
    CASE ev = "transcription" -> d \in Rets(t, "transcribe_audio")
      [] ev = "ai_response" -> d \in Rets(t, "get_ai_response")
      [] ev = "audio_response" -> \E b \in Rets(t, "text_to_speech") : d = B64Encode(b)
      [] OTHER -> d \in {MsgTranscribe, MsgAudio, MsgGeneric}

\* C8: every message a client receives comes from a round trip its own
\* "audio" event started, and carries that round trip's results; the
\* adapters of a round trip are called with its own payload and results.
DeliveredToOriginOnly ==
    /\ \A s \in Sids : \A m \in outbox[s] :
        /\ sid[m.task] = s
        /\ ContentOf(m.task, m.event, m.data)
    /\ \A t \in Tasks : \A i \in 1..Len(invoked[t]) :
        CASE invoked[t][i].fn = "transcribe_audio" ->
                invoked[t][i].arg = B64Decode(AudioBase64(data[t])).bytes
          [] invoked[t][i].fn = "get_ai_response" ->
                invoked[t][i].arg \in Rets(t, "transcribe_audio")
          [] OTHER ->
                invoked[t][i].arg \in Rets(t, "get_ai_response")

DeliveredToOriginWitness ==
    \E t, u \in Tasks :
        /\ sid[t] # sid[u]
        /\ pc[t] = "done" /\ pc[u] = "done"
        /\ \E m \in outbox[sid[t]] : m.event = "audio_response"
        /\ \E m \in outbox[sid[u]] : m.event = "audio_response"

\* the payload with everything up to and including its first comma removed
StripFirstComma(d) ==
    IF HasComma(d) THEN SubSeq(d, FirstComma(d) + 1, Len(d)) ELSE d

\* canonical base64: alphabet characters, a multiple of four, at most two
\* pads and only at the end
StrictBase64(s) ==
    /\ Len(s) % 4 = 0
    /\ \E k \in 0..2 :
        /\ k <= Len(s)
        /\ \A i \in 1..Len(s) :
            IF i > Len(s) - k THEN s[i] = "=" ELSE IsB64Char(s[i])

Malformed(d) == ~StrictBase64(StripFirstComma(d))

\* C3: a payload that is not base64 ends its round trip with one error event
\* and no adapter called.
MalformedPayloadRejected ==
    \A t \in Tasks : Malformed(data[t]) /\ pc[t] \notin {"idle", "pending"} =>
        /\ invoked[t] = << >>
        /\ pc[t] = "done" => EventsOf(t) = << "error" >>

\* C9: the text handed to b64decode is the payload after its first comma
\* (the whole payload when it has none).
DecodesTextAfterFirstComma ==
    \A t \in Tasks : pc[t] \notin {"idle", "pending"} =>
        audio_base64[t] = StripFirstComma(data[t])

InTranscribe(t) == pc[t] \in {"temp_write", "groq_call", "groq_wait", "temp_cleanup"}

\* C10: once transcribe_audio has returned, the temporary file it created
\* no longer exists.
TempFileReleased ==
    \A t \in Tasks : ~InTranscribe(t) => t \notin files

====
